---- MODULE Spec2Model ----
(***************************************************************************)
(* Model of sys-utils/hwclock-rtc.c: the /dev/rtc backend of hwclock.      *)
(*                                                                         *)
(* The process state is the two file-scope statics (rtc_dev_name,          *)
(* rtc_dev_fd), the descriptors the process holds open, the atexit hooks   *)
(* it has registered, and the position and locals of a running             *)
(* synchronize_to_clock_tick_rtc (the only operation with loops and        *)
(* waits).  The environment is the outcome of every open(), ioctl() and    *)
(* select(), the second the RTC currently shows and the monotonic clock.   *)
(* Time is counted in half seconds, so that 1.5 s and 10 s are integers.   *)
(***************************************************************************)
EXTENDS Integers, Sequences, FiniteSets

VARIABLES
    rtc_dev_name,   \* static const char *rtc_dev_name ("NULL" before any open_rtc)
    rtc_dev_fd,     \* static int rtc_dev_fd, -1 when no handle is live
    openFds,        \* descriptors the process holds open
    atexit_hooks,   \* number of times close_rtc was registered with atexit()
    closeCalls,     \* number of close() calls made on a descriptor
    exited,         \* the process has run exit()
    res,            \* what the open_rtc of the current/last operation did
    call,           \* the current/last operation, its return value and warning
    devlog,         \* requests made to the device by the current/last operation
    pc,             \* position inside synchronize_to_clock_tick_rtc, "idle" between
                    \* operations, "crashed" once a signal has killed the process
    bw,             \* locals of busywait_for_rtc_clock_tick
    mono,           \* the monotonic clock (half seconds) while a busy-wait runs: it
                    \* reads any of 0..MaxMono when gettime_monotonic(&begin) is called
    rtcSec,         \* tm_sec the RTC currently shows
    held            \* the struct tm the device was given by the last RTC_SET_TIME
                    \* that succeeded, as long as the RTC has not ticked and the
                    \* process has at most read the clock since

vars == <<rtc_dev_name, rtc_dev_fd, openFds, atexit_hooks, closeCalls, exited,
          res, call, devlog, pc, bw, mono, rtcSec, held>>

----------------------------------------------------------------------------
(* Bounds of the model *)

\* loop iterations of the busy-wait that fit before the clock passes the limit
MaxIter == 2
\* the monotonic clock reads 0..MaxMono at gettime_monotonic(&begin)
MaxMono == 1
\* the RTC's seconds field counts modulo NSec (60 on the device)
NSec == 2

----------------------------------------------------------------------------
(* Program constants *)

\* time_diff(now, begin) > 1.5, in half seconds
BusywaitLimit == 3
\* tv.tv_sec = 10, in half seconds
SelectTimeout == 20

NULL == "NULL"

\* static const char * const fls[] (the build without __ia64__)
fls == <<"/dev/rtc0", "/dev/rtc", "/dev/misc/rtc">>

\* ctl->rtc_dev_name: NULL, or the path given with --rtc
CtlPaths == {NULL, "/dev/rtc1"}

Candidates == {fls[i] : i \in 1..Len(fls)}
AllPaths == Candidates \cup (CtlPaths \ {NULL})

\* outcome of open(path, O_RDONLY): success, or the errno of the failure
OpenOutcomes == {"OK", "ENOENT", "ENODEV", "EACCES"}

\* the assignment of open outcomes of a call that opens nothing
NoEnv == [p \in AllPaths |-> "UNUSED"]

----------------------------------------------------------------------------
(* open(), close() and atexit() *)

RECURSIVE lowest_free(_, _)
lowest_free(fds, n) == IF n \in fds THEN lowest_free(fds, n + 1) ELSE n

\* open() returns the lowest descriptor not in use (0, 1, 2 are the std streams)
new_fd(fds) == lowest_free(fds, 3)

\* process image touched by open/close: [fd, fds, closes]
close_rtc(st) ==
    [fd     |-> -1,
     fds    |-> IF st.fd # -1 THEN st.fds \ {st.fd} ELSE st.fds,
     closes |-> IF st.fd # -1 THEN st.closes + 1 ELSE st.closes]

\* exit() runs every registered hook; all of them are close_rtc
RECURSIVE run_atexit(_, _)
run_atexit(n, st) == IF n = 0 THEN st ELSE run_atexit(n - 1, close_rtc(st))

----------------------------------------------------------------------------
(* open_rtc *)

\* faulty variant: every failing open is skipped
skip_errno_always(e) == TRUE

\* errno == ENOENT || errno == ENODEV: go on to the next candidate
skip_errno(e) == e \in {"ENOENT", "ENODEV"}

\* the for loop of open_rtc from index i on: [fd, name, attempts], attempts being
\* the open() calls made, each with its path, its outcome and the descriptor it
\* returned; name is NULL when the loop ends without break
RECURSIVE probe(_, _, _)
probe(oc, fds, i) ==
    IF i > Len(fls)
    THEN [fd |-> -1, name |-> NULL, attempts |-> <<>>]
    ELSE LET r   == oc[fls[i]]
             att == [path |-> fls[i], result |-> r,
                     fd |-> IF r = "OK" THEN new_fd(fds) ELSE -1]
         IN  IF r = "OK"
             THEN [fd |-> new_fd(fds), name |-> fls[i], attempts |-> <<att>>]
             ELSE IF skip_errno(r)
             THEN LET rest == probe(oc, fds, i + 1)
                  IN  [rest EXCEPT !.attempts = <<att>> \o @]
             ELSE [fd |-> -1, name |-> fls[i], attempts |-> <<att>>]

\* faulty variant: the loop starts at the second candidate
open_default_from_second(oc, fds, old_name) ==
    LET p == probe(oc, fds, 2)
    IN  [fd       |-> p.fd,
         name     |-> IF p.fd < 0 THEN fls[1]
                      ELSE p.name,
         attempts |-> p.attempts]

\* faulty variant: no default name when nothing opened
open_default_no_default(oc, fds, old_name) ==
    LET p == probe(oc, fds, 1)
    IN  [fd       |-> p.fd,
         name     |-> IF p.name = NULL THEN old_name ELSE p.name,
         attempts |-> p.attempts]

\* the else branch of open_rtc: the loop, then the default name on failure
open_default(oc, fds, old_name) ==
    LET p == probe(oc, fds, 1)
    IN  [fd       |-> p.fd,
         name     |-> IF p.fd < 0 THEN fls[1]
                      ELSE p.name,
         attempts |-> p.attempts]

\* faulty variant: a failing --rtc path falls back to the candidates
open_explicit_fallback(path, oc, fds) ==
    IF oc[path] = "OK"
    THEN [fd |-> new_fd(fds), name |-> path,
          attempts |-> <<[path |-> path, result |-> "OK", fd |-> new_fd(fds)]>>]
    ELSE LET p == probe([q \in AllPaths |-> "ENOENT"], fds, 1)
         IN  [fd |-> p.fd, name |-> path,
              attempts |-> <<[path |-> path, result |-> oc[path], fd |-> -1]>>
                           \o p.attempts]

\* the --rtc branch of open_rtc
open_explicit(path, oc, fds) ==
    [fd       |-> IF oc[path] = "OK" THEN new_fd(fds) ELSE -1,
     name     |-> path,
     attempts |-> <<[path |-> path, result |-> oc[path],
                     fd |-> IF oc[path] = "OK" THEN new_fd(fds) ELSE -1]>>]

\* faulty variant: the cached descriptor is ignored
is_cached_never(fd) == FALSE

\* does this call return the cached descriptor?
is_cached(fd) == fd # -1

\* faulty variant: atexit(close_rtc) also when the descriptor was cached
registers_hook_every_call(cached, fd) == fd # -1

\* does open_rtc register close_rtc on this call?
registers_hook(cached, fd) == (~cached) /\ fd # -1

\* open_rtc(ctl) in environment oc: [fd, name, attempts, cached, hook]; kept with
\* it for the record are the --rtc path the call looked at (none when it returned
\* the cached descriptor) and, when the call failed, the candidates an open()
\* would have succeeded on
open_rtc(ctl_name, oc) ==
    IF is_cached(rtc_dev_fd)
    THEN [fd |-> rtc_dev_fd, name |-> rtc_dev_name, attempts |-> <<>>,
          cached |-> TRUE, hook |-> registers_hook(TRUE, rtc_dev_fd),
          explicit |-> NULL, openable |-> {}]
    ELSE LET o == IF ctl_name # NULL
                  THEN open_explicit(ctl_name, oc, openFds)
                  ELSE open_default(oc, openFds, rtc_dev_name)
         IN  [fd |-> o.fd, name |-> o.name, attempts |-> o.attempts,
              cached |-> FALSE, hook |-> registers_hook(FALSE, o.fd),
              explicit |-> ctl_name,
              openable |-> IF o.fd # -1 THEN {}
                           ELSE {p \in Candidates : oc[p] = "OK"}]

\* the process state after an operation whose open_rtc did o, and which then
\* either goes on (leaves = FALSE) or calls exit() (leaves = TRUE)
Commit(o, leaves) ==
    LET fds1   == IF o.cached \/ o.fd = -1 THEN openFds ELSE openFds \cup {o.fd}
        hooks1 == IF o.hook THEN atexit_hooks + 1 ELSE atexit_hooks
        st0    == [fd |-> o.fd, fds |-> fds1, closes |-> closeCalls]
        st     == IF leaves THEN run_atexit(hooks1, st0) ELSE st0
    IN  /\ rtc_dev_fd' = st.fd
        /\ rtc_dev_name' = o.name
        /\ openFds' = st.fds
        /\ closeCalls' = st.closes
        /\ atexit_hooks' = hooks1
        /\ exited' = leaves

\* the environments a call can tell apart: open_rtc consults no path when the
\* descriptor is cached, only the --rtc path when one is given, and only fls otherwise
EnvsFor(fd, ctl_name) ==
    IF fd # -1 THEN {NoEnv}
    ELSE IF ctl_name # NULL
    THEN {[NoEnv EXCEPT ![ctl_name] = r] : r \in OpenOutcomes}
    ELSE {[p \in AllPaths |-> IF p \in Candidates THEN f[p] ELSE "UNUSED"] :
             f \in [Candidates -> OpenOutcomes]}

----------------------------------------------------------------------------
(* operations *)

Idle == (~exited) /\ pc = "idle"

\* struct tm start_time = { 0 }, nowtime = { 0 }; struct timeval begin = { 0 }, now = { 0 }
NoBw == [start_sec |-> 0, now_sec |-> 0, begin |-> 0, now |-> 0, iter |-> 0]

\* what open_rtc has on record before its first call
NoRes == [fd |-> -1, name |-> NULL, attempts |-> <<>>, cached |-> FALSE,
          hook |-> FALSE, explicit |-> NULL, openable |-> {}]

\* struct tm as far as this file looks at it
NoTm == [sec |-> 0, isdst |-> 0]

\* the device holds no struct tm of an RTC_SET_TIME
NoHeld == [set |-> FALSE, tm |-> NoTm]

\* struct rtc_param param = { .param = 0 }
NoParam == [param |-> 0, uvalue |-> 0, index |-> 0]

\* an operation's record: its return value, the warnings it printed, the struct tm
\* it filled or handed over, the rtc_param it gave the device, its *id and *value,
\* the string it was given (name or opt0), the token it resolved as the parameter
\* name, whether strtoku64 was called on that token, and the number of open_rtc
\* calls it made
Ret(op, ret, diag) ==
    [op |-> op, ret |-> ret, diag |-> diag, tm |-> NoTm, param |-> NoParam,
     id |-> 0, value |-> 0, arg |-> <<>>, name |-> <<>>, parsed |-> FALSE,
     opens |-> 1]

\* the record of what ends before open_rtc is called
RetEarly(op, ret, diag) == [Ret(op, ret, diag) EXCEPT !.opens = 0]

\* one request made to the device: an ioctl with its outcome (and, for
\* RTC_RD_TIME, the tm_sec it delivered, -1 if none; for RTC_SET_TIME, the tm_sec
\* and the tm_isdst the device was given), or the select with what it reported,
\* the timeout it was given and the moment the device became readable
Req(req, result, arg) == [req |-> req, result |-> result, arg |-> arg, at |-> 0]

Init ==
    /\ rtc_dev_name = NULL
    /\ rtc_dev_fd = -1
    /\ openFds = {}
    /\ atexit_hooks = 0
    /\ closeCalls = 0
    /\ exited = FALSE
    /\ res = NoRes
    /\ call = RetEarly("none", 0, {})
    /\ devlog = <<>>
    /\ pc = "idle"
    /\ bw = NoBw
    /\ mono = 0
    /\ rtcSec \in 0..(NSec - 1)
    /\ held = NoHeld

\* return &rtc_interface if the device can be opened, NULL (ret 1) otherwise
probe_for_rtc_clock ==
    /\ Idle
    /\ \E ctl_name \in CtlPaths : \E oc \in EnvsFor(rtc_dev_fd, ctl_name) :
         \E o \in {open_rtc(ctl_name, oc)} :
             /\ Commit(o, FALSE)
             /\ res' = o
             /\ call' = Ret("probe", IF o.fd < 0 THEN 1 ELSE 0, {})
    /\ devlog' = <<>>
    /\ bw' = NoBw
    /\ mono' = 0
    /\ held' = NoHeld
    /\ UNCHANGED <<pc, rtcSec>>

\* main returns, or a caller calls exit(): the atexit hooks run
ProcessExit ==
    /\ Idle
    /\ Commit([fd |-> rtc_dev_fd, name |-> rtc_dev_name, cached |-> TRUE,
               hook |-> FALSE], TRUE)
    /\ res' = NoRes
    /\ call' = RetEarly("exit", 0, {})
    /\ devlog' = <<>>
    /\ bw' = NoBw
    /\ mono' = 0
    /\ held' = NoHeld
    /\ UNCHANGED <<pc, rtcSec>>

----------------------------------------------------------------------------
(* do_rtc_read_ioctl, read_hardware_clock_rtc, set_hardware_clock_rtc *)

IoctlOutcomes == {"OK", "EIO"}

\* faulty variant: tm_isdst is left as it was
do_rtc_read_ioctl_keeps_isdst(e, sec, tm) ==
    IF e # "OK"
    THEN [rc |-> -1, tm |-> tm, warn |-> {"RTC_RD_TIME failed"}]
    ELSE [rc |-> 0, tm |-> [sec |-> sec, isdst |-> tm.isdst], warn |-> {}]

\* ioctl(rtc_fd, RTC_RD_TIME, tm) ending with e while the device shows sec:
\* tm is filled and its tm_isdst forced to -1 only on success
do_rtc_read_ioctl(e, sec, tm) ==
    IF e # "OK"
    THEN [rc |-> -1, tm |-> tm, warn |-> {"RTC_RD_TIME failed"}]
    ELSE [rc |-> 0, tm |-> [sec |-> sec, isdst |-> -1], warn |-> {}]

\* faulty variant: a failed open is handed back to the caller
open_rtc_or_exit_returns(rtc_fd) == [exits |-> FALSE, warn |-> {}]

\* open_rtc_or_exit after open_rtc returned rtc_fd: warn and hwclock_exit when
\* it is negative, else return it
open_rtc_or_exit(rtc_fd) ==
    IF rtc_fd < 0 THEN [exits |-> TRUE, warn |-> {"cannot open rtc device"}]
    ELSE [exits |-> FALSE, warn |-> {}]

read_hardware_clock_rtc ==
    /\ Idle
    /\ \E ctl_name \in CtlPaths : \E oc \in EnvsFor(rtc_dev_fd, ctl_name) :
         \E o \in {open_rtc(ctl_name, oc)} : \E x \in {open_rtc_or_exit(o.fd)} :
             /\ res' = o
             /\ IF x.exits
                THEN /\ Commit(o, TRUE)
                     /\ call' = Ret("read", 1, x.warn)
                     /\ devlog' = <<>>
                     /\ held' = NoHeld
                ELSE \E e \in IoctlOutcomes :
                     LET r == do_rtc_read_ioctl(e, rtcSec, NoTm)
                     IN  /\ Commit(o, FALSE)
                         /\ call' = [Ret("read", r.rc, r.warn) EXCEPT !.tm = r.tm]
                         /\ devlog' = <<Req("RTC_RD_TIME", e,
                                            IF r.rc = 0 THEN r.tm.sec ELSE -1)>>
                         /\ UNCHANGED held
    /\ bw' = NoBw
    /\ mono' = 0
    /\ UNCHANGED <<pc, rtcSec>>

\* the struct tm values a caller hands to set_hardware_clock_rtc
TmValues == [sec : 0..(NSec - 1), isdst : {-1, 1}]

\* faulty variant: a failed RTC_SET_TIME is reported to the caller
set_time_result_returns(rc) ==
    IF rc = -1 THEN [exits |-> FALSE, ret |-> 1, warn |-> {"RTC_SET_TIME failed"}]
    ELSE [exits |-> FALSE, ret |-> 0, warn |-> {}]

\* set_hardware_clock_rtc after the ioctl returned rc: warn and hwclock_exit on
\* -1, else return 0
set_time_result(rc) ==
    IF rc = -1 THEN [exits |-> TRUE, ret |-> 1, warn |-> {"RTC_SET_TIME failed"}]
    ELSE [exits |-> FALSE, ret |-> 0, warn |-> {}]

\* faulty variant: tm_isdst is set to -1 in the struct handed to the device
tm_for_device_forced(new_broken_time) == [new_broken_time EXCEPT !.isdst = -1]

\* the struct tm ioctl(rtc_fd, RTC_SET_TIME, new_broken_time) hands to the
\* device: the caller's, which is const
tm_for_device(new_broken_time) == new_broken_time

set_hardware_clock_rtc ==
    /\ Idle
    /\ \E ctl_name \in CtlPaths : \E oc \in EnvsFor(rtc_dev_fd, ctl_name) :
         \E o \in {open_rtc(ctl_name, oc)} : \E x \in {open_rtc_or_exit(o.fd)} :
             /\ res' = o
             /\ IF x.exits
                THEN /\ Commit(o, TRUE)
                     /\ call' = Ret("write", 1, x.warn)
                     /\ devlog' = <<>>
                     /\ held' = NoHeld
                     /\ UNCHANGED rtcSec
                ELSE \E e \in IoctlOutcomes : \E new_broken_time \in TmValues :
                     LET given == tm_for_device(new_broken_time)
                         r     == set_time_result(IF e = "OK" THEN 0 ELSE -1)
                     IN  /\ devlog' = <<[Req("RTC_SET_TIME", e, given.sec)
                                            EXCEPT !.at = given.isdst]>>
                         /\ Commit(o, r.exits)
                         /\ call' = [Ret("write", r.ret, r.warn)
                                        EXCEPT !.tm = new_broken_time]
                         /\ rtcSec' = IF e = "OK" THEN given.sec ELSE rtcSec
                         /\ held' = IF e = "OK" THEN [set |-> TRUE, tm |-> given]
                                    ELSE NoHeld
    /\ bw' = NoBw
    /\ mono' = 0
    /\ UNCHANGED pc

----------------------------------------------------------------------------
(* synchronize_to_clock_tick_rtc and busywait_for_rtc_clock_tick *)

\* errno of a failing ioctl(rtc_fd, RTC_UIE_ON, 0), or OK
UieOutcomes == {"OK", "ENOTTY", "EINVAL", "EIO"}

\* what the device does during a select(): readable after `at` half seconds,
\* never readable, or the select itself fails (EINTR, EBADF, ...)
SelectEvents ==
    {[kind |-> "ready", at |-> d] :
        d \in {0, SelectTimeout - 1, SelectTimeout}}
    \cup {[kind |-> "never", at |-> 0], [kind |-> "error", at |-> 0]}

\* select(rtc_fd + 1, &rfds, NULL, NULL, &tv) with tv = timeout: the number of
\* ready descriptors, 0 when the timeout expires first, -1 on error
select(timeout, ev) ==
    IF ev.kind = "error" THEN [rc |-> -1]
    ELSE IF ev.kind = "ready" /\ ev.at < timeout THEN [rc |-> 1]
    ELSE [rc |-> 0]

\* faulty variant: every failure of RTC_UIE_ON leads to the busy-wait
uie_unimplemented_any(e) == e # "OK"

\* errno == ENOTTY || errno == EINVAL: rtc ioctl interrupts are unimplemented
uie_unimplemented(e) == e \in {"ENOTTY", "EINVAL"}

\* the difference of two readings of the clock
time_diff(subtrahend, subtractor) == subtrahend - subtractor

\* faulty variant: the limit is reached at 1.5 s already
timed_out_at_limit(now, begin) == time_diff(now, begin) >= BusywaitLimit

\* time_diff(now, begin) > 1.5
timed_out(now, begin) == time_diff(now, begin) > BusywaitLimit

\* rtc_fd = open_rtc(ctl); return 1 if that fails
sync_open ==
    /\ Idle
    /\ mono' = 0
    /\ \E ctl_name \in CtlPaths : \E oc \in EnvsFor(rtc_dev_fd, ctl_name) :
         \E o \in {open_rtc(ctl_name, oc)} :
             /\ Commit(o, FALSE)
             /\ res' = o
             /\ IF o.fd = -1
                THEN /\ call' = Ret("sync", 1, {"cannot open rtc device"})
                     /\ pc' = "idle"
                ELSE /\ call' = Ret("sync", 1, {})
                     /\ pc' = "uie_on"
    /\ devlog' = <<>>
    /\ bw' = NoBw
    /\ held' = NoHeld
    /\ UNCHANGED rtcSec

\* rc = ioctl(rtc_fd, RTC_UIE_ON, 0) and the three-way branch on it
sync_uie_on ==
    /\ ~exited
    /\ pc = "uie_on"
    /\ \E e \in UieOutcomes :
         /\ devlog' = Append(devlog, Req("RTC_UIE_ON", e, 0))
         /\ IF e = "OK"
            THEN pc' = "select" /\ UNCHANGED call
            ELSE IF uie_unimplemented(e)
            THEN pc' = "bw_start" /\ UNCHANGED call
            ELSE /\ pc' = "idle"
                 /\ call' = [call EXCEPT !.diag = @ \cup {"RTC_UIE_ON failed"}]
    /\ UNCHANGED <<rtc_dev_name, rtc_dev_fd, openFds, atexit_hooks, closeCalls,
                   exited, res, bw, mono, rtcSec, held>>

\* faulty variant: a select that timed out counts as a tick
select_result_zero_ok(rc) ==
    IF 0 <= rc THEN [ret |-> 0, warn |-> {}]
    ELSE [ret |-> 1, warn |-> {"select failed"}]

\* the value of ret and the warning after select returned rc
select_result(rc) ==
    IF 0 < rc THEN [ret |-> 0, warn |-> {}]
    ELSE IF rc = 0 THEN [ret |-> 1, warn |-> {"select timed out"}]
    ELSE [ret |-> 1, warn |-> {"select failed"}]

\* wait up to ten seconds for the next update interrupt
sync_select ==
    /\ ~exited
    /\ pc = "select"
    /\ \E ev \in SelectEvents :
         LET w == select(SelectTimeout, ev)
             r == select_result(w.rc)
         IN  /\ devlog' = Append(devlog,
                     [req |-> "select",
                      result |-> IF w.rc > 0 THEN "READY"
                                 ELSE IF w.rc = 0 THEN "TIMEOUT" ELSE "ERROR",
                      arg |-> SelectTimeout,
                      at |-> IF ev.kind = "ready" THEN ev.at ELSE -1])
             /\ call' = [call EXCEPT !.ret = r.ret, !.diag = @ \cup r.warn]
    /\ pc' = "uie_off"
    /\ UNCHANGED <<rtc_dev_name, rtc_dev_fd, openFds, atexit_hooks, closeCalls,
                   exited, res, bw, mono, rtcSec, held>>

\* faulty variant: a failing RTC_UIE_OFF makes synchronize fail
uie_off_result_fails(ret, e) ==
    IF e = "OK" THEN [ret |-> ret, warn |-> {}]
    ELSE [ret |-> 1, warn |-> {"RTC_UIE_OFF failed"}]

\* ret and the warning after ioctl(rtc_fd, RTC_UIE_OFF, 0) ended with e
uie_off_result(ret, e) ==
    IF e = "OK" THEN [ret |-> ret, warn |-> {}]
    ELSE [ret |-> ret, warn |-> {"RTC_UIE_OFF failed"}]

\* turn off update interrupts; a failure is only warned about
sync_uie_off ==
    /\ ~exited
    /\ pc = "uie_off"
    /\ \E e \in IoctlOutcomes :
         LET r == uie_off_result(call.ret, e)
         IN  /\ devlog' = Append(devlog, Req("RTC_UIE_OFF", e, 0))
             /\ call' = [call EXCEPT !.ret = r.ret, !.diag = @ \cup r.warn]
    /\ pc' = "idle"
    /\ UNCHANGED <<rtc_dev_name, rtc_dev_fd, openFds, atexit_hooks, closeCalls,
                   exited, res, bw, mono, rtcSec, held>>

\* busywait_for_rtc_clock_tick up to the do: the baseline read, then begin
bw_start ==
    /\ ~exited
    /\ pc = "bw_start"
    /\ \E e \in IoctlOutcomes :
         LET r == do_rtc_read_ioctl(e, rtcSec, [sec |-> bw.start_sec, isdst |-> 0])
         IN  /\ devlog' = Append(devlog, Req("RTC_RD_TIME", e,
                                          IF r.rc = 0 THEN r.tm.sec ELSE -1))
             /\ IF r.rc # 0
                THEN /\ pc' = "idle"
                     /\ call' = [call EXCEPT !.ret = 1, !.diag = @ \cup r.warn]
                     /\ UNCHANGED <<bw, mono>>
                ELSE \E t \in 0..MaxMono :
                     /\ pc' = "bw_read"
                     /\ mono' = t
                     /\ bw' = [bw EXCEPT !.start_sec = r.tm.sec, !.begin = t]
                     /\ UNCHANGED call
    /\ UNCHANGED <<rtc_dev_name, rtc_dev_fd, openFds, atexit_hooks, closeCalls,
                   exited, res, rtcSec, held>>

\* faulty variant: the loop looks at tm_sec only
loop_break_ignores_rc(rc, start_sec, now_sec) == start_sec # now_sec

\* does the loop end after a read that returned rc and left now_sec?
loop_break(rc, start_sec, now_sec) == rc # 0 \/ start_sec # now_sec

\* first half of a loop iteration: the read, the break, and the return after the loop
bw_read ==
    /\ ~exited
    /\ pc = "bw_read"
    /\ \E e \in IoctlOutcomes :
         LET r == do_rtc_read_ioctl(e, rtcSec, [sec |-> bw.now_sec, isdst |-> 0])
         IN  /\ devlog' = Append(devlog, Req("RTC_RD_TIME", e,
                                          IF r.rc = 0 THEN r.tm.sec ELSE -1))
             /\ bw' = [bw EXCEPT !.now_sec = r.tm.sec, !.iter = @ + 1]
             /\ IF loop_break(r.rc, bw.start_sec, r.tm.sec)
                THEN /\ pc' = "idle"
                     /\ call' = [call EXCEPT !.ret = IF r.rc # 0 THEN 1 ELSE 0,
                                             !.diag = @ \cup r.warn]
                ELSE /\ pc' = "bw_time"
                     /\ UNCHANGED call
    /\ UNCHANGED <<rtc_dev_name, rtc_dev_fd, openFds, atexit_hooks, closeCalls,
                   exited, res, mono, rtcSec, held>>

\* second half of a loop iteration: gettime_monotonic(&now) and the time limit;
\* at most MaxIter reads fit in the time before the clock is seen to pass the limit
bw_time ==
    /\ ~exited
    /\ pc = "bw_time"
    /\ bw' = [bw EXCEPT !.now = mono]
    /\ IF timed_out(mono, bw.begin)
       THEN /\ pc' = "idle"
            /\ call' = [call EXCEPT !.ret = 1,
                                    !.diag = @ \cup {"Timed out waiting for time change"}]
       ELSE /\ bw.iter < MaxIter
            /\ pc' = "bw_read"
            /\ UNCHANGED call
    /\ UNCHANGED <<rtc_dev_name, rtc_dev_fd, openFds, atexit_hooks, closeCalls,
                   exited, res, devlog, mono, rtcSec, held>>

----------------------------------------------------------------------------
(* the environment: time passes *)

\* the monotonic clock advances while the busy-wait loop runs
MonoTick ==
    /\ ~exited
    /\ pc \in {"bw_read", "bw_time"}
    /\ mono <= bw.begin + BusywaitLimit
    /\ mono' = mono + 1
    /\ UNCHANGED <<rtc_dev_name, rtc_dev_fd, openFds, atexit_hooks, closeCalls,
                   exited, res, call, devlog, pc, bw, rtcSec, held>>

\* the RTC reaches its next second
RtcTick ==
    /\ ~exited
    /\ rtcSec' = (rtcSec + 1) % NSec
    /\ held' = NoHeld
    /\ UNCHANGED <<rtc_dev_name, rtc_dev_fd, openFds, atexit_hooks, closeCalls,
                   exited, res, call, devlog, pc, bw, mono>>

----------------------------------------------------------------------------
(* get_param_rtc and set_param_rtc.  A C string is the sequence of its chars. *)

\* static const struct hwclock_param hwclock_params[], without the { } sentinel
hwclock_params ==
    << [id |-> 0, name |-> <<"f", "e", "a", "t", "u", "r", "e", "s">>],
       [id |-> 1,
        name |-> <<"c", "o", "r", "r", "e", "c", "t", "i", "o", "n">>],
       [id |-> 2, name |-> <<"b", "s", "m">>] >>

\* walk the table from entry i: [rc, value]; *value is written only on a match
RECURSIVE alias_from(_, _, _)
alias_from(alias, value, i) ==
    IF i > Len(hwclock_params) THEN [rc |-> 1, value |-> value]
    ELSE IF alias = hwclock_params[i].name
    THEN [rc |-> 0, value |-> hwclock_params[i].id]
    ELSE alias_from(alias, value, i + 1)

resolve_rtc_param_alias(alias, value) == alias_from(alias, value, 1)

digit_of(c) ==
    CASE c = "0" -> 0 [] c = "1" -> 1 [] c = "2" -> 2 [] c = "3" -> 3
      [] c = "4" -> 4 [] c = "5" -> 5 [] c = "6" -> 6 [] c = "7" -> 7
      [] c = "8" -> 8 [] c = "9" -> 9 [] c = "a" -> 10 [] c = "b" -> 11
      [] c = "c" -> 12 [] c = "d" -> 13 [] c = "e" -> 14 [] c = "f" -> 15
      [] OTHER -> 99

\* the digits of str from position i in the given base: [value, end, any],
\* end being the position of the first char that is no digit
RECURSIVE scan_digits(_, _, _, _, _)
scan_digits(str, i, base, acc, any) ==
    IF i <= Len(str) /\ digit_of(str[i]) < base
    THEN scan_digits(str, i + 1, base, acc * base + digit_of(str[i]), TRUE)
    ELSE [value |-> acc, end |-> i, any |-> any]

\* strtoimax/strtoumax(str, &end, 0): optional sign, then 0x (hex), 0 (octal) or decimal
strto_max(str) ==
    LET neg  == Len(str) >= 1 /\ str[1] = "-"
        s0   == IF Len(str) >= 1 /\ str[1] \in {"-", "+"} THEN 2 ELSE 1
        hex  == /\ Len(str) >= s0 + 2
                /\ str[s0] = "0"
                /\ str[s0 + 1] = "x"
                /\ digit_of(str[s0 + 2]) < 16
        oct  == (~hex) /\ Len(str) >= s0 /\ str[s0] = "0"
        d    == IF hex THEN scan_digits(str, s0 + 2, 16, 0, FALSE)
                ELSE IF oct THEN scan_digits(str, s0, 8, 0, FALSE)
                ELSE scan_digits(str, s0, 10, 0, FALSE)
    IN  [value |-> IF neg THEN 0 - d.value ELSE d.value,
         end   |-> IF d.any THEN d.end ELSE 1]

\* ul_strtou64(str, num, base = 0): [rc, num]; empty, negative, digit-less and
\* trailing-garbage strings are refused
ul_strtou64(str, num) ==
    LET p == strto_max(str)
    IN  IF Len(str) = 0 THEN [rc |-> -22, num |-> num]
        ELSE IF p.value < 0 THEN [rc |-> -34, num |-> num]
        ELSE IF p.end = 1 \/ p.end <= Len(str) THEN [rc |-> -22, num |-> p.value]
        ELSE [rc |-> 0, num |-> p.value]

\* strtoku64(str, num, base) hands ul_strtou64 the address of its own parameter
\* num, (uint64_t *) &num: the number parsed lands in that local and *num keeps
\* the value it had
strtoku64(str, num) == [rc |-> ul_strtou64(str, num).rc, num |-> num]

\* faulty variant: the number is parsed first, the alias table tried second
handle_name_number_first(tok, param) ==
    LET a == resolve_rtc_param_alias(tok, param)
        n == strtoku64(tok, param)
    IN  IF n.rc = 0 THEN [ok |-> TRUE, param |-> n.num, parsed |-> TRUE]
        ELSE [ok |-> a.rc = 0, param |-> a.value, parsed |-> TRUE]

\* the "handle name" step of get_param_rtc and set_param_rtc: [ok, param], and
\* whether the && reached strtoku64
handle_name(tok, param) ==
    LET a == resolve_rtc_param_alias(tok, param)
        n == strtoku64(tok, param)
    IN  IF a.rc = 0 THEN [ok |-> TRUE, param |-> a.value, parsed |-> FALSE]
        ELSE [ok |-> n.rc = 0, param |-> n.num, parsed |-> TRUE]

\* strtok: skip the delimiters at position i, then the token up to the next one
RECURSIVE skip_delims(_, _)
skip_delims(str, i) ==
    IF i <= Len(str) /\ str[i] = "=" THEN skip_delims(str, i + 1) ELSE i

RECURSIVE token_end(_, _)
token_end(str, i) ==
    IF i <= Len(str) /\ str[i] # "=" THEN token_end(str, i + 1) ELSE i

\* strtok(str from position i, "="): [null, tok, next]
strtok(str, i) ==
    LET b == skip_delims(str, i)
        e == token_end(str, b)
    IN  IF b > Len(str) THEN [null |-> TRUE, tok |-> <<>>, next |-> b]
        ELSE [null |-> FALSE, tok |-> SubSeq(str, b, e - 1), next |-> e + 1]

\* parameter names given to get_param_rtc
GetNames ==
    { <<"f", "e", "a", "t", "u", "r", "e", "s">>,
      <<"c", "o", "r", "r", "e", "c", "t", "i", "o", "n">>,
      <<"b", "s", "m">>,
      <<"F", "e", "a", "t", "u", "r", "e", "s">>,
      <<"9", "9", "9">>,
      <<"0", "x", "1", "f">>,
      <<"b", "o", "g", "u", "s">>,
      <<>> }

\* strings given to set_param_rtc (hwclock --param-set)
SetSpecs ==
    { <<"c", "o", "r", "r", "e", "c", "t", "i", "o", "n", "=", "5">>,
      <<"c", "o", "r", "r", "e", "c", "t", "i", "o", "n">>,
      <<"b", "o", "g", "u", "s", "=", "5">>,
      <<"c", "o", "r", "r", "e", "c", "t", "i", "o", "n", "=", "5", "=", "7">>,
      <<"c", "o", "r", "r", "e", "c", "t", "i", "o", "n", "=">>,
      <<"b", "s", "m", "=", "=", "2">>,
      <<"7", "=", "0", "x", "1", "0">>,
      <<"f", "e", "a", "t", "u", "r", "e", "s", "=", "x">>,
      <<"=", "5">>,
      <<>> }

\* values a device returns for a parameter
ParamValues == {7}

get_param_rtc ==
    /\ Idle
    /\ \E name \in GetNames :
         \E h \in {handle_name(name, 0)} :
             IF ~h.ok
             THEN /\ call' = [RetEarly("get", 1,
                                     {"could not convert parameter name to number"})
                                 EXCEPT !.arg = name, !.name = name,
                                        !.parsed = h.parsed]
                  /\ devlog' = <<>>
                  /\ UNCHANGED <<rtc_dev_name, rtc_dev_fd, openFds, atexit_hooks,
                                 closeCalls, exited, res>>
             ELSE \E ctl_name \in CtlPaths : \E oc \in EnvsFor(rtc_dev_fd, ctl_name) :
                  \E o \in {open_rtc(ctl_name, oc)} :
                      /\ Commit(o, FALSE)
                      /\ res' = o
                      /\ IF o.fd < 0
                         THEN /\ call' = [Ret("get", 1, {"cannot open"})
                                             EXCEPT !.arg = name, !.name = name,
                                                    !.parsed = h.parsed]
                              /\ devlog' = <<>>
                         ELSE \E e \in IoctlOutcomes : \E v \in ParamValues :
                              /\ devlog' = <<Req("RTC_PARAM_GET", e, 0)>>
                              /\ call' =
                                   IF e # "OK"
                                   THEN [Ret("get", 1, {"RTC_PARAM_GET failed"})
                                           EXCEPT !.param = [param |-> h.param,
                                                    uvalue |-> 0, index |-> 0],
                                                  !.arg = name, !.name = name,
                                                  !.parsed = h.parsed]
                                   ELSE [Ret("get", 0, {})
                                           EXCEPT !.param = [param |-> h.param,
                                                    uvalue |-> 0, index |-> 0],
                                                  !.id = h.param, !.value = v,
                                                  !.arg = name, !.name = name,
                                                  !.parsed = h.parsed]
    /\ bw' = NoBw
    /\ mono' = 0
    /\ held' = NoHeld
    /\ UNCHANGED <<pc, rtcSec>>

\* strcmp(alias, param->name) with alias the result of strtok: a NULL alias is
\* undefined behaviour; the process is killed by SIGSEGV or the strings compare
\* as different
strcmp_outcomes(null) == IF null THEN {"SIGSEGV", "differ"} ELSE {"defined"}

\* what set_param_rtc makes of opt0 before it touches the device: the two tokens,
\* the rtc_param filled from them and the warning of the step that refused
parse_opt(opt0) ==
    LET t1 == strtok(opt0, 1)
        h  == handle_name(t1.tok, 0)
        t2 == strtok(opt0, t1.next)
        v  == strtoku64(t2.tok, 0)
    IN  [null   |-> t1.null,
         name   |-> t1.tok,
         parsed |-> h.parsed,
         param  |-> [param |-> h.param, uvalue |-> v.num, index |-> 0],
         bad    |-> IF ~h.ok THEN {"could not convert parameter name to number"}
                    ELSE IF t2.null THEN {"expected <param>=<value>"}
                    ELSE IF v.rc # 0
                    THEN {"could not convert parameter value to number"}
                    ELSE {}]

set_param_rtc ==
    /\ Idle
    /\ \E opt0 \in SetSpecs : \E p \in {parse_opt(opt0)} :
       \E ub \in strcmp_outcomes(p.null) :
         LET rec(ret, diag) == [Ret("set", ret, diag)
                                  EXCEPT !.arg = opt0, !.name = p.name,
                                         !.parsed = p.parsed]
         IN  IF ub = "SIGSEGV"
             THEN /\ call' = [RetEarly("set", -1, {"SIGSEGV"}) EXCEPT !.arg = opt0]
                  /\ devlog' = <<>>
                  /\ pc' = "crashed"
                  /\ UNCHANGED <<rtc_dev_name, rtc_dev_fd, openFds, atexit_hooks,
                                 closeCalls, exited, res>>
             ELSE IF p.bad # {}
             THEN /\ call' = [rec(1, p.bad) EXCEPT !.opens = 0]
                  /\ devlog' = <<>>
                  /\ UNCHANGED <<rtc_dev_name, rtc_dev_fd, openFds, atexit_hooks,
                                 closeCalls, exited, res, pc>>
             ELSE \E ctl_name \in CtlPaths : \E oc \in EnvsFor(rtc_dev_fd, ctl_name) :
                  \E o \in {open_rtc(ctl_name, oc)} :
                      /\ Commit(o, FALSE)
                      /\ res' = o
                      /\ UNCHANGED pc
                      /\ IF o.fd < 0
                         THEN /\ call' = rec(1, {"cannot open"})
                              /\ devlog' = <<>>
                         ELSE \E e \in IoctlOutcomes :
                              /\ devlog' = <<Req("RTC_PARAM_SET", e, 0)>>
                              /\ call' =
                                   [rec(IF e = "OK" THEN 0 ELSE 1,
                                        IF e = "OK" THEN {}
                                        ELSE {"RTC_PARAM_SET failed"})
                                      EXCEPT !.param = p.param]
    /\ bw' = NoBw
    /\ mono' = 0
    /\ held' = NoHeld
    /\ UNCHANGED rtcSec

\* static const char *get_device_path(void)
get_device_path == rtc_dev_name

Next ==
    \/ probe_for_rtc_clock
    \/ read_hardware_clock_rtc
    \/ set_hardware_clock_rtc
    \/ get_param_rtc
    \/ set_param_rtc
    \/ sync_open
    \/ sync_uie_on
    \/ sync_select
    \/ sync_uie_off
    \/ bw_start
    \/ bw_read
    \/ bw_time
    \/ MonoTick
    \/ RtcTick
    \/ ProcessExit

Spec == Init /\ [][Next]_vars

\* a process that only synchronizes to the clock tick; its steps are taken as long
\* as they are possible, and the monotonic clock keeps advancing
SyncNext ==
    \/ sync_open
    \/ sync_uie_on
    \/ sync_select
    \/ sync_uie_off
    \/ bw_start
    \/ bw_read
    \/ bw_time
    \/ MonoTick
    \/ RtcTick

FairSpec ==
    /\ Init
    /\ [][SyncNext]_vars
    /\ WF_vars(bw_start)
    /\ WF_vars(bw_read)
    /\ WF_vars(bw_time)
    /\ WF_vars(MonoTick)

----------------------------------------------------------------------------
(* Properties of open_rtc *)

\* the last open_rtc opened something itself (no cached descriptor), walking fls
Probed == (~res.cached) /\ res.explicit = NULL /\ res.attempts # <<>>

\* the last open_rtc was given a --rtc path and had no cached descriptor
AskedExplicit == (~res.cached) /\ res.explicit # NULL

FailedAttempts == {i \in 1..Len(res.attempts) : res.attempts[i].result # "OK"}

\* C1: without --rtc and without a live descriptor, when every failing open
\* fails with ENOENT or ENODEV, open_rtc tries fls in order, stops at the first
\* path that opens, returns the descriptor of that open and leaves that path in
\* rtc_dev_name; nothing after it is tried.
C1_FirstThatOpens ==
    (Probed /\ \A i \in FailedAttempts :
                   res.attempts[i].result \in {"ENOENT", "ENODEV"})
    => LET n == Len(res.attempts)
       IN  /\ n <= Len(fls)
           /\ \A i \in 1..n : res.attempts[i].path = fls[i]
           /\ \A i \in 1..(n - 1) : res.attempts[i].result # "OK"
           /\ res.attempts[n].result # "OK" => n = Len(fls)
           /\ res.attempts[n].result = "OK"
                => /\ res.fd # -1
                   /\ res.fd = res.attempts[n].fd
                   /\ res.name = fls[n]
                   /\ get_device_path = fls[n]

\* the first two candidates are missing and the third one opens
C1_Witness ==
    /\ Probed
    /\ Len(res.attempts) = 3
    /\ res.attempts[1].result = "ENOENT"
    /\ res.attempts[2].result = "ENODEV"
    /\ res.attempts[3].result = "OK"
    /\ rtc_dev_fd # -1

\* some open of the last probe failed with an errno other than ENOENT, ENODEV
OtherFailure(i) ==
    /\ i \in FailedAttempts
    /\ res.attempts[i].result \notin {"ENOENT", "ENODEV"}

LaterOpenable(i) == {j \in (i + 1)..Len(fls) : fls[j] \in res.openable}

\* C2 as stated: a candidate that fails with another errno (EACCES) is skipped,
\* and a later candidate that can be opened is opened and returned.
C2_OtherErrorSkipped ==
    \A i \in 1..Len(fls) :
        (Probed /\ OtherFailure(i) /\ LaterOpenable(i) # {})
        => /\ res.fd # -1
           /\ \E j \in LaterOpenable(i) : get_device_path = fls[j]

\* C2 amended: a candidate that fails with another errno ends the probe: no later
\* candidate is tried even if it could be opened, open_rtc returns -1 and
\* rtc_dev_name is the first candidate.
C2_OtherErrorStops ==
    \A i \in 1..Len(fls) :
        (Probed /\ OtherFailure(i))
        => /\ Len(res.attempts) = i
           /\ res.fd = -1
           /\ rtc_dev_fd = -1
           /\ get_device_path = fls[1]

\* the second candidate fails with EACCES while the third one could be opened
C2_Witness ==
    /\ Probed
    /\ OtherFailure(2)
    /\ fls[3] \in res.openable

\* C3: without --rtc, when no open succeeds (whatever the errnos), open_rtc
\* returns -1, no descriptor is live, no exit hook is registered and
\* get_device_path() is the first candidate.
C3_NothingOpens ==
    (Probed /\ FailedAttempts = 1..Len(res.attempts))
    => /\ res.fd = -1
       /\ rtc_dev_fd = -1
       /\ openFds = {}
       /\ ~res.hook
       /\ atexit_hooks = 0
       /\ get_device_path = fls[1]

\* all three candidates were tried and none opened
C3_Witness ==
    /\ Probed
    /\ Len(res.attempts) = Len(fls)
    /\ FailedAttempts = 1..Len(fls)
    /\ res.openable = {}

\* C4: with --rtc and no live descriptor, open_rtc makes exactly one open, on
\* that path, and none on fls; when that open fails (whatever the errno)
\* open_rtc returns -1 and get_device_path() is the --rtc path.
C4_ExplicitOnly ==
    AskedExplicit
    => /\ Len(res.attempts) = 1
       /\ res.attempts[1].path = res.explicit
       /\ res.attempts[1].result # "OK"
            => /\ res.fd = -1
               /\ rtc_dev_fd = -1
               /\ get_device_path = res.explicit

\* the --rtc path does not exist, and the operation failed
C4_Witness ==
    /\ AskedExplicit
    /\ res.attempts[1].result = "ENOENT"
    /\ call.ret # 0

\* C5: while a descriptor is live, every open_rtc (from whichever operation, with
\* whichever --rtc path) returns that descriptor without any open(), and the
\* process never holds more than one descriptor.
C5_Cached ==
    /\ [](Cardinality(openFds) <= 1)
    /\ [][(rtc_dev_fd # -1 /\ res' # res /\ ~exited')
            => /\ res'.fd = rtc_dev_fd
               /\ res'.attempts = <<>>
               /\ rtc_dev_fd' = rtc_dev_fd
               /\ openFds' = openFds]_vars

\* a parameter is read through the descriptor an earlier call opened
C5_Witness ==
    /\ res.cached
    /\ res.attempts = <<>>
    /\ call.op = "get"
    /\ call.ret = 0
    /\ rtc_dev_fd # -1

\* C6: close_rtc is registered with atexit exactly once if an open_rtc succeeded
\* and never otherwise; at exit the descriptor is closed exactly once, never
\* twice, and none is left open.
C6_ClosedOnce ==
    /\ closeCalls <= 1
    /\ atexit_hooks <= 1
    /\ (~exited) => /\ closeCalls = 0
                    /\ (atexit_hooks = 1) = (rtc_dev_fd # -1)
                    /\ openFds = IF rtc_dev_fd # -1 THEN {rtc_dev_fd} ELSE {}
    /\ exited => /\ closeCalls = atexit_hooks
                 /\ openFds = {}
                 /\ rtc_dev_fd = -1

\* the process exited after several operations had used the descriptor
C6_Witness ==
    /\ exited
    /\ atexit_hooks = 1
    /\ closeCalls = 1
    /\ call.op = "exit"

----------------------------------------------------------------------------
(* Properties of synchronize_to_clock_tick_rtc *)

\* the requests of the current synchronize call start with RTC_UIE_ON
SyncStarted == call.op = "sync" /\ Len(devlog) >= 1

IsRead(x) == x.req = "RTC_RD_TIME"

Reads == SelectSeq(devlog, IsRead)

InBusywait == pc \in {"bw_start", "bw_read", "bw_time"}

EnteredBusywait == InBusywait \/ Reads # <<>>

\* C7: when RTC_UIE_ON succeeds, synchronize makes one select with a 10 s
\* timeout and returns 0 exactly when select reports the descriptor ready, which
\* it does exactly when the device becomes readable before the timeout; a
\* timeout returns 1 with the timed-out warning, a select error returns 1 with
\* the failure warning; the clock is never read and the busy-wait never entered.
C7_InterruptWait ==
    (SyncStarted /\ devlog[1].result = "OK")
    => /\ devlog[1].req = "RTC_UIE_ON"
       /\ pc \in {"select", "uie_off", "idle"}
       /\ Reads = <<>>
       /\ bw = NoBw
       /\ Len(devlog) = (IF pc = "select" THEN 1 ELSE IF pc = "uie_off" THEN 2 ELSE 3)
       /\ Len(devlog) >= 2
            => /\ devlog[2].req = "select"
               /\ devlog[2].arg = SelectTimeout
               /\ devlog[2].arg = 20
               /\ (devlog[2].result = "READY")
                    = (devlog[2].at >= 0 /\ devlog[2].at < 20)
               /\ (call.ret = 0) = (devlog[2].result = "READY")
               /\ devlog[2].result = "READY" => call.diag \subseteq {"RTC_UIE_OFF failed"}
               /\ devlog[2].result = "TIMEOUT"
                    => /\ call.ret = 1
                       /\ "select timed out" \in call.diag
                       /\ "select failed" \notin call.diag
               /\ devlog[2].result = "ERROR"
                    => /\ call.ret = 1
                       /\ "select failed" \in call.diag
                       /\ "select timed out" \notin call.diag

\* the device never became readable: synchronize returned 1 after the timeout
C7_Witness ==
    /\ SyncStarted
    /\ pc = "idle"
    /\ devlog[1].result = "OK"
    /\ devlog[2].result = "TIMEOUT"
    /\ devlog[2].at = -1
    /\ call.ret = 1

\* C8: synchronize enters the busy-wait exactly when RTC_UIE_ON fails with
\* ENOTTY or EINVAL; on any other failure it returns 1 at once: no clock read,
\* no select, no RTC_UIE_OFF.
C8_FallbackOnlyIfUnsupported ==
    SyncStarted
    => /\ devlog[1].req = "RTC_UIE_ON"
       /\ EnteredBusywait = (devlog[1].result \in {"ENOTTY", "EINVAL"})
       /\ devlog[1].result \notin {"OK", "ENOTTY", "EINVAL"}
            => /\ pc = "idle"
               /\ call.ret = 1
               /\ Len(devlog) = 1
               /\ bw = NoBw

\* RTC_UIE_ON failed with EIO and synchronize returned 1
C8_Witness ==
    /\ SyncStarted
    /\ devlog[1].result = "EIO"
    /\ pc = "idle"
    /\ call.ret = 1

\* C9: in the busy-wait there is one baseline read and one read per loop
\* iteration and no other request; a read that fails is the last request and
\* makes the wait return 1; the wait returns 0 exactly when a loop read succeeds
\* with a tm_sec different from the baseline.
C9_BusywaitReads ==
    (SyncStarted /\ devlog[1].result \in {"ENOTTY", "EINVAL"})
    => LET n == Len(Reads)
       IN  /\ devlog = <<devlog[1]>> \o Reads
           /\ n = (IF pc = "bw_start" THEN 0 ELSE 1 + bw.iter)
           /\ \A i \in 1..(n - 1) : Reads[i].result = "OK"
           /\ \A i \in 2..(n - 1) : Reads[i].arg = Reads[1].arg
           /\ pc = "idle"
                => /\ n >= 1
                   /\ Reads[n].result # "OK"
                        => /\ call.ret = 1
                           /\ "RTC_RD_TIME failed" \in call.diag
                   /\ (call.ret = 0) = (/\ n >= 2
                                        /\ Reads[n].result = "OK"
                                        /\ Reads[n].arg # Reads[1].arg)

\* the second loop read saw the second change: the wait returned 0
C9_Witness ==
    /\ SyncStarted
    /\ pc = "idle"
    /\ Len(Reads) = 3
    /\ Reads[3].result = "OK"
    /\ Reads[3].arg # Reads[1].arg
    /\ call.ret = 0

TimedOutWarning == "Timed out waiting for time change"

\* the busy-wait returned after reads that all succeeded and all showed the baseline
StuckDeviceReturn ==
    /\ SyncStarted
    /\ pc = "idle"
    /\ Len(Reads) >= 2
    /\ \A i \in 1..Len(Reads) : Reads[i].result = "OK" /\ Reads[i].arg = Reads[1].arg

\* C10: with the monotonic clock advancing the busy-wait always returns; it
\* returns with the timed-out warning only when the time since begin exceeds
\* 1.5 s, goes on to another read only while it does not, and against a device
\* whose reads succeed and never change it returns 1 with that warning.
C10_BusywaitTerminates ==
    /\ InBusywait ~> (pc = "idle")
    /\ [](TimedOutWarning \in call.diag
            => /\ pc = "idle"
               /\ call.ret = 1
               /\ bw.now - bw.begin > 3)
    /\ []((pc = "bw_read" /\ bw.iter >= 1) => bw.now - bw.begin <= 3)
    /\ [](StuckDeviceReturn => (TimedOutWarning \in call.diag /\ call.ret = 1))

\* begin was 1 and the wait gave up at 5, two seconds later
C10_Witness ==
    /\ StuckDeviceReturn
    /\ TimedOutWarning \in call.diag
    /\ bw.begin = 1
    /\ bw.now = 5

----------------------------------------------------------------------------
(* Properties of read_hardware_clock_rtc and set_hardware_clock_rtc *)

\* C11 as stated: read never ends the process, whatever fails, and makes at
\* most one RTC_RD_TIME request.
C11_ReadNeverExits ==
    call.op = "read" => (~exited) /\ Len(devlog) <= 1

\* C11 amended: read ends the process (exit hooks run) exactly when open_rtc
\* gives it no descriptor, before any request to the device; with a descriptor
\* it makes exactly one RTC_RD_TIME request and returns, 0 when the request
\* succeeded and -1 with a warning when it failed.
C11_ReadExitsOnOpenFailure ==
    call.op = "read"
    => /\ exited = (res.fd = -1)
       /\ exited => /\ devlog = <<>>
                    /\ call.diag = {"cannot open rtc device"}
                    /\ openFds = {}
       /\ (~exited) => /\ Len(devlog) = 1
                       /\ devlog[1].req = "RTC_RD_TIME"
                       /\ (call.ret = 0) = (devlog[1].result = "OK")
                       /\ devlog[1].result # "OK"
                            => /\ call.ret = -1
                               /\ call.diag = {"RTC_RD_TIME failed"}

\* no candidate could be opened: read ended the process
C11_Witness ==
    /\ call.op = "read"
    /\ exited
    /\ Len(res.attempts) = Len(fls)
    /\ res.fd = -1

\* the current/last operation is a write that made its RTC_SET_TIME request
WriteAsked == call.op = "write" /\ devlog # <<>>

\* C12 as stated: when RTC_SET_TIME fails, write returns an error to its caller
\* and does not end the process.
C12_WriteFailureReturns ==
    (WriteAsked /\ devlog[1].result # "OK") => (~exited) /\ call.ret # 0

\* C12 amended: when RTC_SET_TIME fails, write warns and ends the process
\* itself (exit hooks run, the descriptor is closed); a write that returns to its
\* caller returns 0 after a request that succeeded.
C12_WriteFailureExits ==
    WriteAsked
    => /\ devlog[1].req = "RTC_SET_TIME"
       /\ Len(devlog) = 1
       /\ exited = (devlog[1].result # "OK")
       /\ exited => /\ call.diag = {"RTC_SET_TIME failed"}
                    /\ rtc_dev_fd = -1
                    /\ openFds = {}
                    /\ closeCalls = 1
       /\ (~exited) => call.ret = 0 /\ call.diag = {}

\* the device refused the new time: write ended the process
C12_Witness ==
    /\ WriteAsked
    /\ devlog[1].result = "EIO"
    /\ exited
    /\ closeCalls = 1

\* C13: a read that succeeds after a write of t that succeeded, on a device that
\* holds what it was given and has not ticked since, delivers t in every field
\* but tm_isdst; tm_isdst is -1 after every read that succeeds, whatever t had.
C13_RoundTrip ==
    (call.op = "read" /\ call.ret = 0)
    => /\ call.tm.isdst = -1
       /\ held.set => call.tm = [held.tm EXCEPT !.isdst = -1]

\* second 1 was written with tm_isdst = 1 and read back with tm_isdst = -1
C13_Witness ==
    /\ call.op = "read"
    /\ call.ret = 0
    /\ held = [set |-> TRUE, tm |-> [sec |-> 1, isdst |-> 1]]
    /\ call.tm = [sec |-> 1, isdst |-> -1]

\* C14 as stated: whatever tm_isdst the caller passes to write, the struct tm
\* the device receives with RTC_SET_TIME carries tm_isdst = -1.
C14_WriteForcesIsdst ==
    WriteAsked => devlog[1].at = -1

\* C14 amended: the struct tm the device receives with RTC_SET_TIME is the
\* caller's, unchanged, tm_isdst included.
C14_WritePassesIsdst ==
    WriteAsked
    => /\ devlog[1].req = "RTC_SET_TIME"
       /\ devlog[1].arg = call.tm.sec
       /\ devlog[1].at = call.tm.isdst
       /\ held.set => held.tm = call.tm

\* the caller passed tm_isdst = 1 and the device received 1
C14_Witness ==
    /\ WriteAsked
    /\ call.ret = 0
    /\ call.tm.isdst = 1
    /\ devlog[1].at = 1

----------------------------------------------------------------------------
(* Properties of get_param_rtc and set_param_rtc *)

Features == <<"f", "e", "a", "t", "u", "r", "e", "s">>
Correction == <<"c", "o", "r", "r", "e", "c", "t", "i", "o", "n">>
Bsm == <<"b", "s", "m">>

IsAlias(n) == n \in {Features, Correction, Bsm}

\* the id the alias table is documented to give a name
AliasId(n) == IF n = Features THEN 0 ELSE IF n = Correction THEN 1 ELSE 2

\* n is an integer literal (0x.. hex, 0.. octal, else decimal)
IsNumber(n) == ul_strtou64(n, 0).rc = 0

NumberOf(n) == ul_strtou64(n, 0).num

NameRefused == "could not convert parameter name to number" \in call.diag

SpecRefused ==
    \/ "expected <param>=<value>" \in call.diag
    \/ "could not convert parameter value to number" \in call.diag

\* the current/last operation is a get or set that handed a name to the
\* resolution step
ResolvedName == call.op \in {"get", "set"} /\ pc # "crashed"

\* C15: a name that is exactly features, correction or bsm resolves to id 0, 1, 2
\* without strtoku64 being called on it, in get and in set; a name that is no
\* alias (Features is none) and no integer literal is refused with the
\* could-not-convert-name warning, return value 1, before open_rtc.
C15_AliasFirst ==
    ResolvedName
    => /\ IsAlias(call.name)
            => /\ ~call.parsed
               /\ ~NameRefused
               /\ devlog # <<>> => /\ call.param.param = AliasId(call.name)
                                   /\ call.param.index = 0
               /\ (call.op = "get" /\ call.ret = 0) => call.id = AliasId(call.name)
       /\ ((~IsAlias(call.name)) /\ ~IsNumber(call.name))
            => /\ call.parsed
               /\ NameRefused
               /\ call.ret = 1
               /\ call.opens = 0
               /\ devlog = <<>>

\* bsm was read from the device as parameter 2
C15_Witness ==
    /\ call.op = "get"
    /\ call.name = Bsm
    /\ call.ret = 0
    /\ call.id = 2
    /\ ~call.parsed
    /\ Len(devlog) = 1

\* C16 as stated: for a name that is no alias but an integer literal n, get
\* gives the device an rtc_param with param = n and, on success, *id is n.
C16_NumericFallback ==
    (call.op = "get" /\ (~IsAlias(call.name)) /\ IsNumber(call.name)
       /\ devlog # <<>>)
    => /\ call.param.param = NumberOf(call.name)
       /\ call.ret = 0 => call.id = NumberOf(call.name)

\* position of the first = of str, Len(str) + 1 if it has none
FirstEq(str) == token_end(str, 1)

HasEq(str) == FirstEq(str) <= Len(str)

\* the text before the first = and all the text after it
NameText(str) == SubSeq(str, 1, FirstEq(str) - 1)

ValueText(str) == SubSeq(str, FirstEq(str) + 1, Len(str))

Resolvable(n) == IsAlias(n) \/ IsNumber(n)

ResolvedId(n) == IF IsAlias(n) THEN AliasId(n) ELSE NumberOf(n)

\* C17 as stated: for name=value with a resolvable name and an integer literal
\* v as value, set makes exactly one RTC_PARAM_SET request, whose rtc_param has
\* the resolved id, uvalue = v and index = 0 (here: once the device is open).
C17_SetSendsValue ==
    (call.op = "set" /\ HasEq(call.arg) /\ Resolvable(NameText(call.arg))
       /\ IsNumber(ValueText(call.arg)) /\ res.fd # -1 /\ call.opens = 1)
    => /\ Len(devlog) = 1
       /\ devlog[1].req = "RTC_PARAM_SET"
       /\ call.param = [param  |-> ResolvedId(NameText(call.arg)),
                        uvalue |-> NumberOf(ValueText(call.arg)),
                        index  |-> 0]

\* C18 as stated: a set whose name resolves but which has no = or whose value
\* is no integer literal is refused with one of the two value warnings; a get or
\* set whose name is neither alias nor integer literal is refused with the name
\* warning; in both cases open_rtc is not called and no request is made.
C18_MalformedRejected ==
    call.op \in {"get", "set"}
    => LET nm == IF call.op = "get" THEN call.arg ELSE NameText(call.arg)
       IN  /\ (~Resolvable(nm))
                => /\ NameRefused
                   /\ call.ret = 1
                   /\ call.opens = 0
                   /\ devlog = <<>>
           /\ (/\ call.op = "set"
               /\ Resolvable(nm)
               /\ (~HasEq(call.arg)) \/ ~IsNumber(ValueText(call.arg)))
                => /\ SpecRefused
                   /\ call.ret = 1
                   /\ call.opens = 0
                   /\ devlog = <<>>

\* C19 as stated: the name is the text before the first = and the value all the
\* text after it; a set whose name resolves and whose text after the first = is
\* no integer literal (5=7, or nothing) is refused with a value warning and makes
\* no request.
C19_SplitAtFirstEq ==
    (call.op = "set" /\ HasEq(call.arg) /\ Resolvable(NameText(call.arg))
       /\ ~IsNumber(ValueText(call.arg)))
    => /\ SpecRefused
       /\ call.ret = 1
       /\ devlog = <<>>

----------------------------------------------------------------------------
(* The interrupt bracket of synchronize_to_clock_tick_rtc *)

IsUieOff(x) == x.req = "RTC_UIE_OFF"

UieOffs == SelectSeq(devlog, IsUieOff)

\* C20: after an RTC_UIE_ON that succeeded, synchronize makes exactly one
\* RTC_UIE_OFF request before it returns, after the select whatever the select
\* reported and never before it; the outcome of that request leaves the return
\* value the select decided; after an RTC_UIE_ON that failed (busy-wait
\* included) no RTC_UIE_OFF is requested.
C20_InterruptBracket ==
    SyncStarted
    => /\ devlog[1].req = "RTC_UIE_ON"
       /\ devlog[1].result # "OK" => UieOffs = <<>>
       /\ devlog[1].result = "OK"
            => /\ Len(UieOffs) = (IF pc = "idle" THEN 1 ELSE 0)
               /\ pc = "idle"
                    => /\ Len(devlog) = 3
                       /\ devlog[2].req = "select"
                       /\ devlog[2].result \in {"READY", "TIMEOUT", "ERROR"}
                       /\ devlog[3].req = "RTC_UIE_OFF"
                       /\ (call.ret = 0) = (devlog[2].result = "READY")
                       /\ (call.ret = 1) = (devlog[2].result # "READY")
                       /\ ("RTC_UIE_OFF failed" \in call.diag)
                            = (devlog[3].result # "OK")

\* the tick was seen, RTC_UIE_OFF failed, and synchronize still returned 0
C20_Witness ==
    /\ SyncStarted
    /\ pc = "idle"
    /\ devlog[1].result = "OK"
    /\ devlog[2].result = "READY"
    /\ devlog[3].result = "EIO"
    /\ call.ret = 0

====
